---- MODULE Spec2Model ----
(***************************************************************************)
(* The three streaming scripts of the repository (recorder/recorder.py,    *)
(* recorder/inferencer_example.py, detector/VW2_ONYX.py) as one state      *)
(* machine: one run of one script, from the token request to process exit. *)
(*                                                                         *)
(* Time is counted in ticks.  The wait for the next frame of the stream    *)
(* (a blocking network read of a stream capped at max_fps=100) takes at    *)
(* least one tick; every other step takes zero or more ticks.              *)
(***************************************************************************)
EXTENDS Integers, Sequences, FiniteSets, TLC

\* ---------------------------------------------------------------- bounds
MaxFrames == 2          \* longest observed prefix of the stream
MaxStep == 1            \* largest clock advance of one step, in ticks
MaxRecordLength == 2    \* largest record length, in ticks

\* ------------------------------------------------------------- constants
StatusOK == 200         \* the one status fetch_cameras accepts

None == -1              \* Python's None for an integer-valued name

Scripts == {"recorder", "inferencer", "detector"}
StatusCodes == {StatusOK, 500}
RecordLengths == 0..MaxRecordLength
Steps == 0..MaxStep
WaitSteps == 1..MaxStep
Tails == {"exhausted", "error", "endless"}
Keys == {"q", "none"}
LoopReasons == {"exhausted", "duration", "user", "exception"}

\* The clock saturates at MaxTime.  MaxTime lies beyond every instant at which
\* recorder.py or inferencer_example.py read the clock (see ClockExact), so
\* only VW2_ONYX.py, whose loop never reads the clock, can reach it.
MaxTime == 5 * MaxStep + MaxRecordLength + MaxFrames + 2

VARIABLES
    script,          \* which of the three scripts runs
    pc,              \* position of the script
    now,             \* time.time()
    frames,          \* observed prefix of the stream: TRUE = decodable payload
    tail,            \* what the stream does after that prefix
    strictLib,       \* build of the imaging libraries: an undecodable frame raises
    pos,             \* index of the next frame of the prefix
    cur,             \* index of the frame bound to `response`, 0 before the first
    status_code,     \* res.status_code of the camera-list request
    record_length,
    log_frametimes,
    log_file,        \* "none" | "open" | "closed"
    video_writer,    \* "none" | "open" | "released"
    window,          \* "none" | "open" | "destroyed"
    channel,         \* "none" | "open"
    responses,       \* the Stream call: "none" | "open" | "finished"
    count,
    start_time,
    last_frame_time,
    nWritten,        \* frames appended to the .avi file
    nLogged,         \* lines written to the .frametimes file
    pulled,          \* ids of the prefix frames pulled from the stream, in order
    dispatched,      \* ids of the prefix frames handed to the sinks, in order
    endReason,       \* why the run left its main line
    errCause,        \* what raised the exception caught around the loop
    elapsedAtBreak,  \* time.time() - start_time read by the duration check that broke
    total_time,
    printedCount,    \* the frame count of the summary line
    nRelease,        \* calls of video_writer.release()
    nLogClose,       \* calls of log_file.close()
    nDestroy,        \* calls of cv2.destroyAllWindows()
    files,           \* output files created by the run
    exitCode         \* process exit code, None while running

env == <<script, frames, tail, strictLib>>
res == <<log_file, video_writer, window, channel, responses, files>>
loopv == <<pos, cur, count, last_frame_time, nWritten, nLogged, pulled, dispatched>>
endv == <<endReason, errCause, elapsedAtBreak, total_time, printedCount,
          nRelease, nLogClose, nDestroy, exitCode>>
cfgv == <<status_code, record_length, log_frametimes, start_time>>
vars == <<pc, now, env, res, loopv, endv, cfgv>>

\* ---------------------------------------------------------------- helpers
RECURSIVE BoolSeqs(_)
BoolSeqs(n) ==
    IF n = 0 THEN {<<>>}
    ELSE LET S == BoolSeqs(n - 1)
         IN  S \cup {Append(s, b) : s \in {t \in S : Len(t) = n - 1}, b \in BOOLEAN}

Advance(t, d) == IF t + d > MaxTime THEN MaxTime ELSE t + d

\* cv2.imdecode yields an image for the frame; frames after the observed
\* prefix are decodable.
FrameOk(i) == i > Len(frames) \/ frames[i]

InPrefix(i) == i >= 1 /\ i <= Len(frames)

NumBad == Cardinality({i \in 1..Len(frames) : ~frames[i]})

Init ==
    /\ script \in Scripts
    /\ pc = "auth"
    /\ now \in Steps
    /\ frames \in BoolSeqs(MaxFrames)
    /\ tail \in Tails
    /\ strictLib \in BOOLEAN
    /\ pos = 1
    /\ cur = 0
    /\ status_code = None
    /\ record_length = None
    /\ log_frametimes = FALSE
    /\ log_file = "none"
    /\ video_writer = "none"
    /\ window = "none"
    /\ channel = "none"
    /\ responses = "none"
    /\ count = 0
    /\ start_time = None
    /\ last_frame_time = None
    /\ nWritten = 0
    /\ nLogged = 0
    /\ pulled = <<>>
    /\ dispatched = <<>>
    /\ endReason = "none"
    /\ errCause = "none"
    /\ elapsedAtBreak = None
    /\ total_time = None
    /\ printedCount = None
    /\ nRelease = 0
    /\ nLogClose = 0
    /\ nDestroy = 0
    /\ files = {}
    /\ exitCode = None

\* An exception nobody catches: the interpreter prints it and exits with 1.
Uncaught(reason) ==
    /\ pc' = "Done"
    /\ endReason' = reason
    /\ exitCode' = 1
    /\ UNCHANGED <<errCause, elapsedAtBreak, total_time, printedCount,
                   nRelease, nLogClose, nDestroy>>

\* exit() with no argument: SystemExit(None), exit code 0.
exit(reason) ==
    /\ pc' = "Done"
    /\ endReason' = reason
    /\ exitCode' = 0
    /\ UNCHANGED <<errCause, elapsedAtBreak, total_time, printedCount,
                   nRelease, nLogClose, nDestroy>>

\* ------------------------------------------------------------ the set-up
get_bearer_token ==
    /\ pc = "auth"
    /\ \E ok \in BOOLEAN :
         IF ok THEN pc' = "list" /\ UNCHANGED endv
               ELSE Uncaught("auth_failure")
    /\ UNCHANGED <<now, env, res, loopv, cfgv>>

DirectoryFailedInverted(status) == status = StatusOK

DirectoryFailed(status) == status /= StatusOK

fetch_cameras ==
    /\ pc = "list"
    /\ \E status \in StatusCodes :
         /\ status_code' = status
         /\ IF DirectoryFailed(status)
            THEN exit("dir_failure")
            ELSE /\ pc' = IF script = "detector" THEN "stub" ELSE "params"
                 /\ UNCHANGED endv
    /\ UNCHANGED <<now, env, res, loopv, record_length, log_frametimes, start_time>>

\* camera id and record length, from the arguments or from the prompts;
\* prompt_selection and prompt_number leave through exit().
ResolveParams ==
    /\ pc = "params"
    /\ \E rl \in RecordLengths, abort \in BOOLEAN :
         IF abort
         THEN exit("aborted") /\ UNCHANGED record_length
         ELSE record_length' = rl /\ pc' = "openlog" /\ UNCHANGED endv
    /\ UNCHANGED <<now, env, res, loopv, status_code, log_frametimes, start_time>>

OpenLog ==
    /\ pc = "openlog"
    /\ \E l \in BOOLEAN, ok \in BOOLEAN :
         /\ log_frametimes' = l
         /\ IF ~l
            THEN pc' = "stub" /\ UNCHANGED <<log_file, files, endv>>
            ELSE IF ok
                 THEN /\ log_file' = "open"
                      /\ files' = files \cup {"frametimes"}
                      /\ pc' = "stub"
                      /\ UNCHANGED endv
                 ELSE Uncaught("setup_failure") /\ UNCHANGED <<log_file, files>>
    /\ UNCHANGED <<now, env, video_writer, window, channel, responses, loopv,
                   status_code, record_length, start_time>>

init_grpc_stub ==
    /\ pc = "stub"
    /\ \E ok \in BOOLEAN :
         IF ok
         THEN /\ channel' = "open"
              /\ pc' = IF script = "recorder" THEN "writer" ELSE "stream"
              /\ UNCHANGED endv
         ELSE Uncaught("setup_failure") /\ UNCHANGED channel
    /\ UNCHANGED <<now, env, log_file, video_writer, window, responses, files,
                   loopv, cfgv>>

CreateWriter ==
    /\ pc = "writer"
    /\ video_writer' = "open"
    /\ files' = files \cup {"avi"}
    /\ pc' = IF script = "recorder" THEN "stream" ELSE "window"
    /\ UNCHANGED <<now, env, log_file, window, channel, responses, loopv, endv, cfgv>>

OpenStream ==
    /\ pc = "stream"
    /\ responses' = "open"
    /\ count' = 0
    /\ start_time' = now
    /\ last_frame_time' = now
    /\ pc' = IF script = "recorder" THEN "pull" ELSE "model"
    /\ UNCHANGED <<now, env, log_file, video_writer, window, channel, files,
                   pos, cur, nWritten, nLogged, pulled, dispatched, endv,
                   status_code, record_length, log_frametimes>>

LoadModel ==
    /\ pc = "model"
    /\ \E d \in Steps, ok \in BOOLEAN :
         /\ now' = Advance(now, d)
         /\ IF ok
            THEN /\ pc' = IF script = "inferencer" THEN "writer" ELSE "pull"
                 /\ UNCHANGED endv
            ELSE Uncaught("setup_failure")
    /\ UNCHANGED <<env, res, loopv, cfgv>>

CreateWindow ==
    /\ pc = "window"
    /\ \E ok \in BOOLEAN :
         IF ok
         THEN window' = "open" /\ pc' = "pull" /\ UNCHANGED endv
         ELSE Uncaught("setup_failure") /\ UNCHANGED window
    /\ UNCHANGED <<now, env, log_file, video_writer, channel, responses, files,
                   loopv, cfgv>>

\* ------------------------------------------------------- the streaming loop
\* The loop is left: the two recorder scripts go on to their finally block,
\* VW2_ONYX.py has no statement after its try and ends with exit code 0.
LeaveLoop(reason, cause, elapsed) ==
    /\ endReason' = reason
    /\ errCause' = cause
    /\ elapsedAtBreak' = elapsed
    /\ pc' = IF script = "detector" THEN "Done" ELSE "finally"
    /\ exitCode' = IF script = "detector" THEN 0 ELSE exitCode
    /\ UNCHANGED <<total_time, printedCount, nRelease, nLogClose, nDestroy>>

\* for response in responses: the next frame, the end of the stream
\* (StopIteration) or a transport error (grpc.RpcError).
Pull ==
    /\ pc = "pull"
    /\ \E d \in WaitSteps :
         /\ now' = Advance(now, d)
         /\ IF pos <= Len(frames)
            THEN /\ cur' = pos
                 /\ pos' = pos + 1
                 /\ pulled' = Append(pulled, pos)
                 /\ pc' = "body"
                 /\ UNCHANGED <<responses, endv>>
            ELSE CASE tail = "endless" ->
                        /\ cur' = Len(frames) + 1
                        /\ pc' = "body"
                        /\ UNCHANGED <<pos, pulled, responses, endv>>
                   [] tail = "exhausted" ->
                        /\ responses' = "finished"
                        /\ LeaveLoop("exhausted", "none", None)
                        /\ UNCHANGED <<pos, cur, pulled>>
                   [] tail = "error" ->
                        /\ responses' = "finished"
                        /\ LeaveLoop("exception", "stream", None)
                        /\ UNCHANGED <<pos, cur, pulled>>
    /\ UNCHANGED <<env, log_file, video_writer, window, channel, files,
                   count, last_frame_time, nWritten, nLogged, dispatched, cfgv>>

DispatchReordered(seq, id) == IF InPrefix(id) THEN <<id>> \o seq ELSE seq

\* The frame bound to `response` is handed to the sinks of the script.
Dispatch(seq, id) == IF InPrefix(id) THEN Append(seq, id) ELSE seq

DurationExceededInverted(t, start, length) == t - start < length

\* time.time() - start_time > record_length
DurationExceeded(t, start, length) == t - start > length

\* f_logger(frame_time): one line per frame when -l is given
Logged(n) == IF log_frametimes THEN n + 1 ELSE n

\* recorder.py, lines 143-151
RecorderBody ==
    /\ pc = "body"
    /\ script = "recorder"
    /\ nLogged' = Logged(nLogged)
    /\ last_frame_time' = now
    /\ dispatched' = Dispatch(dispatched, cur)
    /\ IF ~FrameOk(cur) /\ strictLib
       THEN \* video_writer.write(cv2.imdecode(...)) raises cv2.error
            /\ LeaveLoop("exception", "decode", None)
            /\ UNCHANGED <<now, count, nWritten>>
       ELSE /\ nWritten' = IF FrameOk(cur) THEN nWritten + 1 ELSE nWritten
            /\ count' = count + 1
            /\ \E d \in Steps :
                 /\ now' = Advance(now, d)
                 /\ IF DurationExceeded(now', start_time, record_length)
                    THEN LeaveLoop("duration", "none", now' - start_time)
                    ELSE pc' = "pull" /\ UNCHANGED endv
    /\ UNCHANGED <<env, res, pos, cur, pulled, cfgv>>

\* inferencer_example.py, lines 77-92
InferencerBody ==
    /\ pc = "body"
    /\ script = "inferencer"
    /\ nLogged' = Logged(nLogged)
    /\ last_frame_time' = now
    /\ dispatched' = Dispatch(dispatched, cur)
    /\ IF ~FrameOk(cur) /\ strictLib
       THEN \* model.predict / plot / write / imshow raises on the missing image
            /\ LeaveLoop("exception", "decode", None)
            /\ UNCHANGED <<now, count, nWritten>>
       ELSE /\ nWritten' = IF FrameOk(cur) THEN nWritten + 1 ELSE nWritten
            /\ \E d \in Steps, key \in Keys :
                 /\ now' = Advance(now, d)
                 /\ IF key = "q"
                    THEN LeaveLoop("user", "none", None) /\ UNCHANGED count
                    ELSE /\ count' = count + 1
                         /\ IF DurationExceeded(now', start_time, record_length)
                            THEN LeaveLoop("duration", "none", now' - start_time)
                            ELSE pc' = "pull" /\ UNCHANGED endv
    /\ UNCHANGED <<env, res, pos, cur, pulled, cfgv>>

\* VW2_ONYX.py, lines 109-113: no counter, no clock read, no key test
DetectorBody ==
    /\ pc = "body"
    /\ script = "detector"
    /\ dispatched' = Dispatch(dispatched, cur)
    /\ IF ~FrameOk(cur) /\ strictLib
       THEN /\ LeaveLoop("exception", "decode", None)
            /\ UNCHANGED <<now, window>>
       ELSE /\ window' = "open"
            /\ \E d \in Steps : now' = Advance(now, d)
            /\ pc' = "pull"
            /\ UNCHANGED endv
    /\ UNCHANGED <<env, log_file, video_writer, channel, responses, files,
                   pos, cur, count, last_frame_time, nWritten, nLogged, pulled, cfgv>>

\* ------------------------------------------------------- the finally block
FinallyKeepsLogOpen ==
    /\ pc = "finally"
    /\ video_writer' = "released"
    /\ nRelease' = nRelease + 1
    /\ \E d \in Steps :
         /\ now' = Advance(now, d)
         /\ total_time' = now' - start_time
    /\ printedCount' = count
    /\ IF script = "inferencer"
       THEN window' = "destroyed" /\ nDestroy' = nDestroy + 1
       ELSE UNCHANGED <<window, nDestroy>>
    /\ pc' = "Done"
    /\ exitCode' = 0
    /\ UNCHANGED <<env, log_file, nLogClose, channel, responses, files, loopv,
                   endReason, errCause, elapsedAtBreak, cfgv>>

\* recorder.py lines 154-161, inferencer_example.py lines 95-103.  The summary
\* line divides by total_time: with total_time = 0 the print raises
\* ZeroDivisionError and the rest of the block is skipped.
Finally ==
    /\ pc = "finally"
    /\ video_writer' = "released"
    /\ nRelease' = nRelease + 1
    /\ \E d \in Steps :
         /\ now' = Advance(now, d)
         /\ total_time' = now' - start_time
    /\ IF total_time' = 0
       THEN /\ exitCode' = 1
            /\ UNCHANGED <<printedCount, log_file, nLogClose, window, nDestroy>>
       ELSE /\ printedCount' = count
            /\ IF log_file /= "none"
               THEN log_file' = "closed" /\ nLogClose' = nLogClose + 1
               ELSE UNCHANGED <<log_file, nLogClose>>
            /\ IF script = "inferencer"
               THEN window' = "destroyed" /\ nDestroy' = nDestroy + 1
               ELSE UNCHANGED <<window, nDestroy>>
            /\ exitCode' = 0
    /\ pc' = "Done"
    /\ UNCHANGED <<env, channel, responses, files, loopv,
                   endReason, errCause, elapsedAtBreak, cfgv>>

Next ==
    \/ get_bearer_token
    \/ fetch_cameras
    \/ ResolveParams
    \/ OpenLog
    \/ init_grpc_stub
    \/ CreateWriter
    \/ OpenStream
    \/ LoadModel
    \/ CreateWindow
    \/ Pull
    \/ RecorderBody
    \/ InferencerBody
    \/ DetectorBody
    \/ Finally

Spec == Init /\ [][Next]_vars

\* One thread runs the script: a step that can be taken is taken.
FairSpec == Spec /\ WF_vars(Next)

\* ------------------------------------------------------------ sanity
TypeOK ==
    /\ pc \in {"auth", "list", "params", "openlog", "stub", "writer", "stream",
               "model", "window", "pull", "body", "finally", "Done"}
    /\ now \in 0..MaxTime
    /\ cur \in 0..(MaxFrames + 1)
    /\ responses \in {"none", "open", "finished"}
    /\ exitCode \in {None, 0, 1}

\* The two recorder scripts never read a saturated clock.
ClockExact == script /= "detector" => now < MaxTime

\* The summary line never divides by zero: a frame wait lies between
\* start_time and the finally block.
SummaryDivides == total_time /= None => total_time > 0

Recording == script \in {"recorder", "inferencer"}

\* -------------------------------------------------------------- claims

\* C1: in recorder.py and inferencer_example.py, once the streaming loop has
\* been entered, the video writer, the frametime log (when -l is given) and,
\* in inferencer_example.py, the display window are each finalized exactly
\* once by the end of the session, whatever ended the loop (stream exhausted,
\* record length exceeded, stop key, exception inside the loop).
C1_SinksFinalizedOnce ==
    /\ nRelease <= 1 /\ nLogClose <= 1 /\ nDestroy <= 1
    /\ (pc = "Done" /\ Recording /\ endReason \in LoopReasons) =>
          /\ nRelease = 1 /\ video_writer = "released"
          /\ log_frametimes => (nLogClose = 1 /\ log_file = "closed")
          /\ script = "inferencer" => (nDestroy = 1 /\ window = "destroyed")

C1_Witness ==
    /\ pc = "Done" /\ script = "inferencer" /\ endReason = "exception"
    /\ log_frametimes /\ nLogClose = 1 /\ nRelease = 1 /\ nDestroy = 1

\* C2: in recorder.py a frame that fails to decode is skipped and the loop
\* goes on: a stream of N frames with one undecodable frame that runs to its
\* end leaves N-1 written frames and ends by the normal path.
C2_BadFrameSkipped ==
    (pc = "Done" /\ script = "recorder" /\ tail = "exhausted" /\ NumBad = 1
        /\ endReason \in LoopReasons \ {"duration"})
    => (endReason = "exhausted" /\ nWritten = Len(frames) - 1)

\* C3: the exit code is non-zero when the token request fails or the camera
\* list request returns a status other than 200, and zero when the session
\* ends normally or is stopped by the user.
C3_ExitCodes ==
    pc = "Done" =>
       /\ endReason \in {"auth_failure", "dir_failure"} => exitCode /= 0
       /\ endReason \in {"exhausted", "duration", "user"} => exitCode = 0

\* C4: in all three scripts, a camera-list status other than 200 ends the
\* session in the listing step: the Stream call is never opened and neither
\* the .avi file nor the .frametimes file is ever created.
C4_NoStreamAfterDirectoryFailure ==
    (status_code /= None /\ status_code /= StatusOK) =>
       /\ pc = "Done" /\ endReason = "dir_failure"
       /\ responses = "none" /\ channel = "none"
       /\ files = {} /\ video_writer = "none" /\ log_file = "none"

C4_Witness ==
    status_code = 500 /\ pc = "Done" /\ script = "detector" /\ files = {}

\* C5: the Stream call is released by the client on every way out of the
\* loop; no session reaches its end with the call still open.
C5_StreamReleased ==
    (pc = "Done" /\ Recording /\ endReason \in LoopReasons) => responses /= "open"

\* C6: in recorder.py and inferencer_example.py every file or display handle
\* the session opened is released on every exit path, the error paths before
\* the try block included.
C6_HandlesReleased ==
    (pc = "Done" /\ Recording) =>
       (log_file /= "open" /\ video_writer /= "open" /\ window /= "open")

\* C7: the loop never ends for the reason 'duration exceeded' while the time
\* elapsed since start_time is below the record length: at such an end, the
\* elapsed time read by the check, and the total time of the summary, are at
\* least the record length.
C7_DurationRespected ==
    endReason = "duration" =>
       /\ elapsedAtBreak >= record_length
       /\ total_time /= None => total_time >= record_length

C7_Witness ==
    /\ pc = "Done" /\ endReason = "duration" /\ record_length >= 1
    /\ total_time >= record_length

\* C8: in all three scripts the frames go to the sinks one at a time in
\* stream order: the i-th frame pulled is the i-th frame dispatched, none is
\* reordered or skipped, and a frame is dispatched before the next is pulled.
C8_DispatchInOrder ==
    /\ \A i \in 1..Len(pulled) : pulled[i] = i
    /\ Len(dispatched) <= Len(pulled)
    /\ Len(pulled) - Len(dispatched) <= 1
    /\ \A i \in 1..Len(dispatched) : dispatched[i] = pulled[i]
    /\ pc /= "body" => dispatched = pulled

C8_Witness ==
    script = "detector" /\ pc = "pull" /\ Len(dispatched) >= 2 /\ dispatched = pulled

\* C9: in each of the three scripts, when the stream keeps delivering frames,
\* the loop eventually ends (by the record length, unless an exception or the
\* stop key ends it first) and the session reaches its end.
C9_LoopEndsByDuration ==
    (pc = "pull" /\ tail = "endless")
       ~> (pc = "Done" /\ endReason \in {"duration", "user", "exception"})

\* C10: in recorder.py and inferencer_example.py the frame count of the
\* summary equals the number of frames written to the video file, on every
\* termination path.
C10_SummaryCountsWrittenFrames ==
    (pc = "Done" /\ Recording /\ printedCount /= None) => printedCount = nWritten

====
